---- MODULE Spec2Model ----
(***************************************************************************)
(* Switch error rate calculation (src/main.cc): the per-locus loop of      *)
(* main(), two steps per iteration of the per-sample loop: the iteration   *)
(* reads its inputs (lines 197-226), then compares them (lines 228-362).   *)
(*                                                                         *)
(* The two phgeno files are the environment.  A character of a locus line  *)
(* is drawn where the loop body first reads its buffer cell: every cell of *)
(* allEstAlleles is read by exactly one iteration (line 220), a cell of    *)
(* allTrueAlleles by the iteration of its sample (line 221) and by the     *)
(* iteration of its trio partner (lines 253-254).  A drawn cell of         *)
(* allTrueAlleles is kept while an iteration of this locus is still to     *)
(* read it, so both readers see the same line.  allEstAlleles is kept as   *)
(* the position in the estimated line of the character each cell holds,    *)
(* as the loop of lines 166-177 fills it; the character itself is drawn    *)
(* where line 220 reads the cell.  Warnings and the verbose reports are    *)
(* output only and are not modelled.                                       *)
(***************************************************************************)
EXTENDS Integers, Sequences, FiniteSets, TLC

\* Bounds of the model: lines in the estimated phgeno file, samples compared.
MaxLoci == 3
MaxSamples == 2
\* Records the input files hold at most: the genotype pairs of the estimated
\* file (samples times lines) and, with -l, as many HAPMIX records.
MaxInput == 4
\* The same for the specification of the trio runs.
MaxTrioInput == 6
\* The same for the runs with -t and -l on files without missing data.
MaxAncInput == 12

\* Allele characters of the estimated file: '9' is the truth set's missing
\* marker, which the phaser's output must not hold (line 238).
EstChars == {"0", "1", "?", "9"}
\* Allele characters of the true file; "x" stands for any other character.
TrueChars == {"0", "1", "9", "x"}
\* A cell of allTrueAlleles whose character has not been read yet.
Undrawn == "_"

EstPairs == [0..1 -> EstChars]
TruePairs == [0..1 -> TrueChars]
NoPair == [h \in 0..1 |-> Undrawn]

\* A line of the estimated file is the sequence of the positions 1, 2, ... of
\* its characters, ended by NL, the '\n' of lines 168 and 179.
NL == 0

\* HAPMIX records: the three posteriors (homozyPop1, het, homozyPop2) in
\* thousandths.  The last one fails the sum check.
AncRecords ==
  { <<950, 30, 20>>, <<930, 40, 30>>, <<30, 950, 20>>, <<20, 30, 950>>,
    <<500, 300, 200>>, <<400, 300, 200>> }
NoRecord == <<0, 0, 0>>

VARIABLES
  numSamples,               \* argv[optind]
  trioParentsInSuccession,  \* -t
  otherParentIdx,           \* -p: the pairing table, or NoTable
  useLocalAnc,              \* -l
  omitIndSet,               \* -o: the sample indices omitted
  skipNumInEst,             \* -s: the leading samples of the estimated
                            \* lines that are skipped
  pc,                       \* "loop" | "read" | "cmp" | "done" | "fatal"
  samp,                     \* the per-sample loop's index
  homologsInverted, prevSwitchError, indivNumSwitches,
  numMissing, numSwitchErrors, totalHetSites, numMarkers,
  numAncClassSwitchErrors, totalAncClassHetSites,
  prevLocalAnc,
  ancRead,                  \* records consumed from hapmixFiles[s]
  allEstAlleles,            \* the estimated line's buffer: cell i-1 holds
                            \* the character at position allEstAlleles[i]
  allTrueAlleles,           \* the true line's buffer, cells drawn so far
  estAlleles, trueAlleles,  \* the loop body's locals (lines 213-214)
  prevAndCurAncClass,       \* the loop body's local (line 198)
  prevLocalAncClass,        \* the loop body's local (line 201)
  ancRecord,                \* getLocalAnc's locals homozyPop1, het,
                            \* homozyPop2 (line 488), in thousandths
  estLineLen, trueLineLen,  \* the files: the characters before the '\n'
                            \* in the line at hand of estG and of trueG
  atEof                     \* the files ("est", "true") whose line at hand
                            \* is ended by the end of the file, not by '\n'

\* A second run of the program next to the first, on related input, for the
\* properties that compare two runs; NoTwin where there is none.
VARIABLES twin

\* History of the run, kept for the properties below (not program state).
VARIABLES
  hetSites,   \* [s]: the increments of totalHetSites made by s's iterations
  hetLoci,    \* [s]: the non-skipped true-heterozygous loci of s so far
  lastAlign,  \* [s]: the alignment at the last of them (-1: none yet)
  flips,      \* [s]: the adjacent pairs of them whose alignment differs
  scenA,      \* the leading lines of the files that are Scenario A's
  skipped,    \* with -p alone: the samples the trio filter has skipped at
              \* the locus at hand
  touched     \* with -p alone: the samples whose iteration at the locus at
              \* hand changed an orientation, a count or a counter

histvars == <<hetSites, hetLoci, lastAlign, flips, scenA, skipped, touched>>
cfgvars ==
  <<numSamples, trioParentsInSuccession, otherParentIdx, useLocalAnc,
    omitIndSet, skipNumInEst>>
progvars ==
  <<homologsInverted, prevSwitchError, indivNumSwitches, numMissing,
    numSwitchErrors, totalHetSites, numAncClassSwitchErrors,
    totalAncClassHetSites, prevLocalAnc, ancRead>>
locals ==
  <<estAlleles, trueAlleles, prevAndCurAncClass, prevLocalAncClass,
    ancRecord>>
linevars == <<estLineLen, trueLineLen, atEof>>
vars ==
  <<cfgvars, pc, samp, progvars, numMarkers, allEstAlleles, allTrueAlleles,
    locals, linevars, twin, histvars>>

NoTable == <<>>

\* readTrioParentsPairs: a table the loader accepts pairs every sample once.
PairTables(n) ==
  { f \in [0..(n-1) -> 0..(n-1)] :
      \A i \in 0..(n-1) : f[i] # i /\ f[f[i]] = i }

----------------------------------------------------------------------------
\* lines 166-178: the estimated alleles of the line are read into the buffer

\* The line of w samples
EstLineOf(w) == [j \in 1..(2 * w + 1) |-> IF j <= 2 * w THEN j ELSE NL]

\* The characters first..len of a line, and its '\n'
EstLineFrom(first, len) ==
  [j \in 1..(len - first + 2) |-> IF j <= len - first + 1 THEN first + j - 1
                                   ELSE NL]

\* lines 158-162: the characters the skip loop gets past, of a line of len
\* characters; the assert of line 162 holds when they are 2 * skip
SkipEst(skip, len) == IF len < 2 * skip THEN len ELSE 2 * skip

\* lines 184-189: the cells the loop fills from a true line of len
\* characters; the assert of line 189 holds when they are 2 * n
ReadTrueLine(len, n) == IF len < 2 * n THEN len ELSE 2 * n

\* The line without the two characters of sample k
DeleteSample(line, k) ==
  LET Kept(c) == c = NL \/ (c - 1) \div 2 # k IN SelectSeq(line, Kept)

\* ReadEstLoop with curSamp taken after curHap++
RECURSIVE ReadEstLoopLate(_, _, _, _, _, _)
ReadEstLoopLate(line, omit, n, pos, curHap, buf) ==
  LET c == line[pos]
  IN IF c = NL \/ ~(Len(buf) < 2 * n) THEN buf
     ELSE IF ((curHap + 1) \div 2) \in omit
          THEN ReadEstLoopLate(line, omit, n, pos + 1, curHap + 1, buf)
          ELSE ReadEstLoopLate(line, omit, n, pos + 1, curHap + 1,
                               Append(buf, c))

\* lines 168-177: the while loop from its test on; pos is the character the
\* fgetc of the test reads, buf the cells 0..i-1 of allEstAlleles
RECURSIVE ReadEstLoop(_, _, _, _, _, _)
ReadEstLoop(line, omit, n, pos, curHap, buf) ==
  LET c == line[pos]
  IN IF c = NL \/ ~(Len(buf) < 2 * n) THEN buf
     ELSE IF (curHap \div 2) \in omit
          THEN ReadEstLoop(line, omit, n, pos + 1, curHap + 1, buf)
          ELSE ReadEstLoop(line, omit, n, pos + 1, curHap + 1, Append(buf, c))

\* lines 166-177; the assert of line 178 holds when the result has 2n cells
ReadEstLine(line, omit, n) == ReadEstLoop(line, omit, n, 1, 0, <<>>)

----------------------------------------------------------------------------
\* getLocalAnc

AncSumOk(rec) ==
  LET sum == rec[1] + rec[2] + rec[3] IN sum >= 997 /\ sum <= 1003

GetLocalAnc(rec) ==
  IF rec[1] > 900 THEN 0
  ELSE IF rec[2] > 900 THEN 1
  ELSE IF rec[3] > 900 THEN 2
  ELSE -1

\* lines 205-210
PrevAndCurAncClass(cur, prev) ==
  IF cur = prev /\ cur >= 0 THEN cur ELSE -1

\* lines 320-323 and 346-349: the bucket a site or a switch is counted in
AncBucket(cls) == IF cls >= 0 THEN cls ELSE 3

----------------------------------------------------------------------------
\* The loop body, lines 197-362, on the program state st (a record of the
\* variables it writes).  fatal: an assert failed or getLocalAnc exited.

Fatal(st) == [st EXCEPT !.fatal = TRUE]

ValidTrue(c) == c = "0" \/ c = "1" \/ c = "9"

\* TrueMissing that takes the genotype as missing when both alleles are '9'
TrueMissingBoth(tru) == tru[0] = "9" /\ tru[1] = "9"

\* line 228
TrueMissing(tru) == tru[0] = "9" \/ tru[1] = "9"

\* lines 242-243
TrioChecked(cfg, s) ==
  (cfg.trioParentsInSuccession /\ s % 2 = 0) \/ cfg.otherParentIdx # NoTable

\* lines 246-250
OtherParent(cfg, s) ==
  IF cfg.trioParentsInSuccession THEN s + 1 ELSE cfg.otherParentIdx[s]

\* TripleHet that holds only where the sample's first true allele is '0'
TripleHetZero(tru, oth) ==
  tru[0] = "0" /\ tru[0] # tru[1] /\ oth[0] # oth[1] /\ tru[0] # oth[0]

\* lines 252-254
TripleHet(tru, oth) ==
  tru[0] # tru[1] /\ oth[0] # oth[1] /\ tru[0] # oth[0]

\* AfterTripleHet without the samp++ of line 264
AfterTripleHetNext(cfg, s) == s + 1

\* lines 260-267: the index the for loop continues from after a triple het
AfterTripleHet(cfg, s) == IF cfg.trioParentsInSuccession THEN s + 2 ELSE s + 1

\* FirstHet with the totalHetSites++ that line 299 comments out
FirstHetCounted(st, s, est, tru) ==
  IF tru[0] = tru[1]
  THEN IF est[0] = est[1] /\ est[0] = tru[0] THEN st ELSE Fatal(st)
  ELSE LET b == [st EXCEPT !.totalHetSites = @ + 1]
       IN IF est[0] = tru[0]
          THEN LET a == [b EXCEPT !.homologsInverted[s] = 0]
               IN IF est[1] = tru[1] THEN a ELSE Fatal(a)
          ELSE IF est[0] = tru[1] /\ est[1] = tru[0]
               THEN [b EXCEPT !.homologsInverted[s] = 1]
               ELSE Fatal(b)

\* lines 279-312: no heterozygous locus seen yet
FirstHet(st, s, est, tru) ==
  IF tru[0] = tru[1]
  THEN IF est[0] = est[1] /\ est[0] = tru[0] THEN st ELSE Fatal(st)
  ELSE IF est[0] = tru[0]
       THEN LET a == [st EXCEPT !.homologsInverted[s] = 0]
            IN IF est[1] = tru[1] THEN a ELSE Fatal(a)
       ELSE IF est[0] = tru[1] /\ est[1] = tru[0]
            THEN [st EXCEPT !.homologsInverted[s] = 1]
            ELSE Fatal(st)

\* CountHetSite with the test of line 318 inverted
CountHetSiteHom(st, tru, cls) ==
  IF tru[0] = tru[1]
  THEN [st EXCEPT !.totalHetSites = @ + 1,
                  !.totalAncClassHetSites[AncBucket(cls)] = @ + 1]
  ELSE st

\* lines 318-324
CountHetSite(st, tru, cls) ==
  IF tru[0] # tru[1]
  THEN [st EXCEPT !.totalHetSites = @ + 1,
                  !.totalAncClassHetSites[AncBucket(cls)] = @ + 1]
  ELSE st

\* CountSwitch without the inversion of line 351
CountSwitchNoToggle(st, s, cls, locus) ==
  [st EXCEPT !.numSwitchErrors = @ + 1,
             !.numAncClassSwitchErrors[AncBucket(cls)] = @ + 1,
             !.prevSwitchError[s] = locus,
             !.indivNumSwitches[s] = @ + 1]

\* CountSwitch without the indivNumSwitches[samp]++ of line 360
CountSwitchNoIndiv(st, s, cls, locus) ==
  [st EXCEPT !.numSwitchErrors = @ + 1,
             !.numAncClassSwitchErrors[AncBucket(cls)] = @ + 1,
             !.homologsInverted[s] = 1 - @,
             !.prevSwitchError[s] = locus]

\* CountSwitch that counts every switch in the last bucket
CountSwitchAmbiguous(st, s, cls, locus) ==
  [st EXCEPT !.numSwitchErrors = @ + 1,
             !.numAncClassSwitchErrors[3] = @ + 1,
             !.homologsInverted[s] = 1 - @,
             !.prevSwitchError[s] = locus,
             !.indivNumSwitches[s] = @ + 1]

\* lines 345-360
CountSwitch(st, s, cls, locus) ==
  [st EXCEPT !.numSwitchErrors = @ + 1,
             !.numAncClassSwitchErrors[AncBucket(cls)] = @ + 1,
             !.homologsInverted[s] = 1 - @,
             !.prevSwitchError[s] = locus,
             !.indivNumSwitches[s] = @ + 1]

\* CheckSwitch with h0 = 0 and h1 = 1 whatever the orientation is
CheckSwitchAligned(st, s, est, tru, cls, locus) ==
  LET a == CountHetSite(st, tru, cls)
  IN IF est[0] = tru[0]
     THEN IF est[1] = tru[1] THEN a ELSE Fatal(a)
     ELSE IF est[0] = tru[1] /\ est[1] = tru[0]
          THEN CountSwitch(a, s, cls, locus)
          ELSE Fatal(a)

\* CheckSwitch without the assert of lines 343-344
CheckSwitchNoAssert(st, s, est, tru, cls, locus) ==
  LET h0 == st.homologsInverted[s]
      h1 == 1 - st.homologsInverted[s]
      a  == CountHetSite(st, tru, cls)
  IN IF est[h0] = tru[0]
     THEN IF est[h1] = tru[1] THEN a ELSE Fatal(a)
     ELSE CountSwitch(a, s, cls, locus)

\* lines 313-362: check for a switch error
CheckSwitch(st, s, est, tru, cls, locus) ==
  LET h0 == st.homologsInverted[s]
      h1 == 1 - st.homologsInverted[s]
      a  == CountHetSite(st, tru, cls)
  IN IF est[h0] = tru[0]
     THEN IF est[h1] = tru[1] THEN a ELSE Fatal(a)
     ELSE IF est[h0] = tru[1] /\ est[h1] = tru[0]
          THEN CountSwitch(a, s, cls, locus)
          ELSE Fatal(a)

\* PhaseTrack without the assert of line 274
PhaseTrackLenient(st, s, est, tru, cls, locus) ==
  IF est[0] = "?" \/ est[1] = "?"
  THEN [st EXCEPT !.numMissing = @ + 1]
  ELSE IF st.homologsInverted[s] = -1
       THEN FirstHet(st, s, est, tru)
       ELSE CheckSwitch(st, s, est, tru, cls, locus)

\* lines 272-362
PhaseTrack(st, s, est, tru, cls, locus) ==
  IF est[0] = "?" \/ est[1] = "?"
  THEN IF est[0] = est[1]
       THEN [st EXCEPT !.numMissing = @ + 1]
       ELSE Fatal(st)
  ELSE IF st.homologsInverted[s] = -1
       THEN FirstHet(st, s, est, tru)
       ELSE CheckSwitch(st, s, est, tru, cls, locus)

\* lines 199-211: one record is read, prevLocalAnc is updated
ReadAnc(st, cfg, s, rec) ==
  IF cfg.useLocalAnc
  THEN LET a == [st EXCEPT !.ancRead[s] = @ + 1]
       IN IF AncSumOk(rec)
          THEN [a EXCEPT !.prevLocalAnc[s] = GetLocalAnc(rec)]
          ELSE Fatal(a)
  ELSE st

\* lines 198-211: the value of prevAndCurAncClass for this iteration
AncClassOf(st, cfg, s, rec) ==
  IF cfg.useLocalAnc
  THEN PrevAndCurAncClass(GetLocalAnc(rec), st.prevLocalAnc[s])
  ELSE -1

\* lines 222-225
ValidLocus(tru) == ValidTrue(tru[0]) /\ ValidTrue(tru[1])

\* line 238
EstNotNine(est) == est[0] # "9" /\ est[1] # "9"

\* lines 228-362: the iteration after its alleles were read; samp is left at
\* the index the for loop's samp++ then increments
Compare(st, cfg, s, est, tru, oth, cls, locus) ==
  IF TrueMissing(tru)
  THEN st
  ELSE IF ~EstNotNine(est) THEN Fatal(st)
  ELSE IF TrioChecked(cfg, s) /\ TripleHet(tru, oth)
  THEN [st EXCEPT !.samp = AfterTripleHet(cfg, s) - 1]
  ELSE PhaseTrack(st, s, est, tru, cls, locus)

\* Whether the partner's cells of allTrueAlleles matter to the iteration:
\* the filter is applied to the sample and the && of line 252 does not cut
\* the reads of line 253 short.
ReadsOther(cfg, s, tru) ==
  /\ ~TrueMissing(tru)
  /\ TrioChecked(cfg, s)
  /\ tru[0] # tru[1]

----------------------------------------------------------------------------
Cfg ==
  [trioParentsInSuccession |-> trioParentsInSuccession,
   otherParentIdx |-> otherParentIdx, useLocalAnc |-> useLocalAnc]

Prog ==
  [homologsInverted |-> homologsInverted, prevSwitchError |-> prevSwitchError,
   indivNumSwitches |-> indivNumSwitches, numMissing |-> numMissing,
   numSwitchErrors |-> numSwitchErrors, totalHetSites |-> totalHetSites,
   numAncClassSwitchErrors |-> numAncClassSwitchErrors,
   totalAncClassHetSites |-> totalAncClassHetSites,
   prevLocalAnc |-> prevLocalAnc, ancRead |-> ancRead,
   samp |-> samp, fatal |-> FALSE]

\* lines 126-146: the state before the first locus
InitProg(n) ==
  [homologsInverted |-> [i \in 0..(n-1) |-> -1],
   prevSwitchError |-> [i \in 0..(n-1) |-> 0],
   indivNumSwitches |-> [i \in 0..(n-1) |-> 0],
   numMissing |-> 0, numSwitchErrors |-> 0, totalHetSites |-> 0,
   numAncClassSwitchErrors |-> [i \in 0..3 |-> 0],
   totalAncClassHetSites |-> [i \in 0..3 |-> 0],
   prevLocalAnc |-> [i \in 0..(n-1) |-> -1],
   ancRead |-> [i \in 0..(n-1) |-> 0],
   samp |-> 0, fatal |-> FALSE]

SetProg(st) ==
  /\ homologsInverted' = st.homologsInverted
  /\ prevSwitchError' = st.prevSwitchError
  /\ indivNumSwitches' = st.indivNumSwitches
  /\ numMissing' = st.numMissing
  /\ numSwitchErrors' = st.numSwitchErrors
  /\ totalHetSites' = st.totalHetSites
  /\ numAncClassSwitchErrors' = st.numAncClassSwitchErrors
  /\ totalAncClassHetSites' = st.totalAncClassHetSites
  /\ prevLocalAnc' = st.prevLocalAnc
  /\ ancRead' = st.ancRead
  /\ samp' = st.samp

\* The two cells of allTrueAlleles of sample p; past the end of the buffer
\* (p = numSamples) the read is out of bounds and yields any characters.
Drawable(buf, p) ==
  { t \in TruePairs : \A h \in 0..1 : buf[2 * p + h] \in {Undrawn, t[h]} }

Draw(buf, p, t) ==
  [i \in DOMAIN buf |-> IF i = 2 * p THEN t[0]
                        ELSE IF i = 2 * p + 1 THEN t[1] ELSE buf[i]]

EmptyBuf(n) == [i \in 0..(2 * n + 1) |-> Undrawn]

\* The partner's true alleles as line 253 reads them in the iteration at
\* hand, when it reads them.
OtherAlleles ==
  IF ReadsOther(Cfg, samp, trueAlleles)
  THEN LET p == OtherParent(Cfg, samp)
       IN [h \in 0..1 |-> allTrueAlleles[2 * p + h]]
  ELSE NoPair

\* The samples whose cells the iterations n, n+1, ... of this locus read.
ReadFrom(cfg, n, num) ==
  (n..(num - 1)) \cup
  { OtherParent(cfg, s) : s \in { x \in n..(num - 1) : TrioChecked(cfg, x) } }

\* buf with the cells no later iteration reads forgotten (the next locus
\* overwrites them)
Keep(buf, live) ==
  [i \in DOMAIN buf |-> IF (i \div 2) \in live THEN buf[i] ELSE Undrawn]

\* The line of the estimated file at hand: the samples compared and the
\* omitted ones.
EstLine == EstLineOf(numSamples + Cardinality(omitIndSet))

----------------------------------------------------------------------------
\* The second run.  It has the options and the true file of the first run;
\* its estimated file is, in mode "inv", the first run's with the two
\* characters of sample k swapped on every line, and in mode "omit" (where
\* the first run omits sample k) the first run's with the two characters of
\* sample k deleted on every line, read with no sample omitted.  In mode
\* "table" (where the first run has -t) it has the first run's files, no -t
\* and -p with the table that pairs the samples 0 and 1, 2 and 3, ...

NoTwin == [mode |-> "none"]

NewTwin(mode, k, n) ==
  [mode |-> mode, k |-> k, st |-> InitProg(n), allEst |-> <<>>,
   est |-> NoPair, cls |-> -1]

TwinRuns(tw) == tw.mode # "none" /\ ~tw.st.fatal

\* readTrioParentsPairs on the pairs (0,1), (2,3), ...
SuccessionTable(n) ==
  [i \in 0..(n - 1) |-> IF i % 2 = 0 THEN i + 1 ELSE i - 1]

\* The options of the second run
TwinCfg(tw) ==
  IF tw.mode = "table"
  THEN [trioParentsInSuccession |-> FALSE,
        otherParentIdx |-> SuccessionTable(numSamples),
        useLocalAnc |-> useLocalAnc]
  ELSE Cfg

\* The partner's true alleles as line 253 reads them in the second run's
\* iteration, when it reads them.
TwinOther(tw, tru) ==
  IF ReadsOther(TwinCfg(tw), tw.st.samp, tru)
  THEN LET p == OtherParent(TwinCfg(tw), tw.st.samp)
       IN [h \in 0..1 |-> allTrueAlleles[2 * p + h]]
  ELSE NoPair

\* The samples whose cells of allTrueAlleles the second run still reads
\* where the first run does not.
TwinKeeps(tw) ==
  IF tw.mode = "table" /\ ~tw.st.fatal THEN 0..(numSamples - 1) ELSE {}

\* The first run has skipped an iteration that the second run makes.
TwinLags(tw) ==
  tw.mode = "table" /\ ~tw.st.fatal /\ pc = "read" /\ tw.st.samp < samp

Swap(est) == [h \in 0..1 |-> est[1 - h]]

\* lines 166-178 in the second run
TwinBegin(tw) ==
  IF ~TwinRuns(tw) THEN tw
  ELSE LET line == IF tw.mode = "omit" THEN DeleteSample(EstLine, tw.k)
                   ELSE EstLine
           omit == IF tw.mode = "omit" THEN {} ELSE omitIndSet
           buf == ReadEstLine(line, omit, numSamples)
       IN [tw EXCEPT !.allEst = buf,
                     !.st = IF Len(buf) = 2 * numSamples
                            THEN [@ EXCEPT !.samp = 0] ELSE Fatal(@)]

\* The estimated alleles line 220 reads in the second run where the first
\* run reads est: a cell that holds the same character of the first run's
\* line holds the same value.
TwinEsts(tw, s, est) ==
  IF ~TwinRuns(tw) THEN {NoPair}
  ELSE IF tw.mode = "inv" THEN {IF s = tw.k THEN Swap(est) ELSE est}
  ELSE { e \in EstPairs :
           \A h \in 0..1 :
             tw.allEst[2 * s + h + 1] = allEstAlleles[2 * s + h + 1]
               => e[h] = est[h] }

\* lines 197-226 in the second run
TwinRead(tw, est, tru, rec) ==
  IF ~TwinRuns(tw) THEN tw
  ELSE LET s == tw.st.samp
           st == ReadAnc(tw.st, TwinCfg(tw), s, rec)
       IN IF st.fatal THEN [tw EXCEPT !.st = st]
          ELSE IF ~ValidLocus(tru) THEN [tw EXCEPT !.st = Fatal(st)]
          ELSE [tw EXCEPT !.st = st, !.est = est,
                          !.cls = AncClassOf(tw.st, TwinCfg(tw), s, rec)]

\* lines 228-362 and the samp++ of line 197 in the second run
TwinCompare(tw, tru, oth, locus) ==
  IF ~TwinRuns(tw) THEN tw
  ELSE LET other == IF tw.mode = "table" THEN TwinOther(tw, tru) ELSE oth
           st == Compare(tw.st, TwinCfg(tw), tw.st.samp, tw.est, tru, other,
                         tw.cls, locus)
       IN [tw EXCEPT !.st = IF st.fatal THEN st
                            ELSE [st EXCEPT !.samp = @ + 1],
                     !.est = NoPair, !.cls = -1]

----------------------------------------------------------------------------
InitRun ==
  /\ numSamples \in 1..MaxSamples
  /\ trioParentsInSuccession \in BOOLEAN
  /\ otherParentIdx \in {NoTable} \cup PairTables(numSamples)
  /\ useLocalAnc \in BOOLEAN
  /\ pc = "loop"
  /\ numMarkers = 0
  /\ LET st == InitProg(numSamples)
     IN /\ homologsInverted = st.homologsInverted
        /\ prevSwitchError = st.prevSwitchError
        /\ indivNumSwitches = st.indivNumSwitches
        /\ numMissing = st.numMissing
        /\ numSwitchErrors = st.numSwitchErrors
        /\ totalHetSites = st.totalHetSites
        /\ numAncClassSwitchErrors = st.numAncClassSwitchErrors
        /\ totalAncClassHetSites = st.totalAncClassHetSites
        /\ prevLocalAnc = st.prevLocalAnc
        /\ ancRead = st.ancRead
        /\ samp = st.samp
  /\ allEstAlleles = <<>>
  /\ allTrueAlleles = EmptyBuf(numSamples)
  /\ estAlleles = NoPair
  /\ trueAlleles = NoPair
  /\ prevAndCurAncClass = -1
  /\ prevLocalAncClass = -1
  /\ ancRecord = NoRecord
  /\ estLineLen = 0
  /\ trueLineLen = 0
  /\ atEof = {}
  /\ hetSites = [s \in 0..(numSamples - 1) |-> 0]
  /\ hetLoci = [s \in 0..(numSamples - 1) |-> 0]
  /\ lastAlign = [s \in 0..(numSamples - 1) |-> -1]
  /\ flips = [s \in 0..(numSamples - 1) |-> 0]
  /\ scenA = 0
  /\ skipped = {}
  /\ touched = {}

\* A run with no sample omitted
Init ==
  /\ InitRun
  /\ omitIndSet = {}
  /\ skipNumInEst = 0
  /\ twin = NoTwin

\* The records read from the input files by the end of locus number k.
InputSize(k) == k * numSamples * (IF useLocalAnc THEN 2 ELSE 1)

\* The characters of an estimated line that holds exactly the samples
\* skipped, omitted and compared, and of a true line that holds exactly the
\* samples compared.
ExactEstLen == 2 * (skipNumInEst + numSamples + Cardinality(omitIndSet))
ExactTrueLen == 2 * numSamples

\* lines 150-192: the estimated file holds another line; both lines are
\* read.  limit bounds the input files of the specification at hand, EstLens
\* and TrueLens are the lengths its lines have.
BeginLocusLines(limit, EstLens, TrueLens) ==
  /\ pc = "loop"
  /\ numMarkers < MaxLoci
  /\ InputSize(numMarkers + 1) <= limit
  /\ numMarkers' = numMarkers + 1
  /\ samp' = 0
  /\ \E el \in EstLens, tl \in TrueLens :
       LET past == SkipEst(skipNumInEst, el)
           buf == ReadEstLine(EstLineFrom(past + 1, el), omitIndSet,
                              numSamples)
           ok == /\ past = 2 * skipNumInEst
                 /\ Len(buf) = 2 * numSamples
                 /\ ReadTrueLine(tl, numSamples) = 2 * numSamples
       IN /\ estLineLen' = el
          /\ trueLineLen' = tl
          /\ allEstAlleles' = IF ok THEN buf ELSE <<>>
          /\ pc' = IF ok THEN "read" ELSE "fatal"
  /\ twin' = TwinBegin(twin)
  /\ UNCHANGED <<cfgvars, progvars, allTrueAlleles, locals, histvars>>

\* The same on files whose lines hold exactly the expected characters and
\* end with '\n'.
BeginLocusWithin(limit) ==
  /\ BeginLocusLines(limit, {ExactEstLen}, {ExactTrueLen})
  /\ atEof' = {}

BeginLocus == BeginLocusWithin(MaxInput)

----------------------------------------------------------------------------
\* What the properties say of one sample at one locus, from the alleles
\* alone: est and tru are the sample's pairs, oth its trio partner's true
\* pair.

Pair(a, b) == [h \in 0..1 |-> IF h = 0 THEN a ELSE b]

GenoMissing(tru) == "9" \in {tru[0], tru[1]}
EstMissing(est) == "?" \in {est[0], est[1]}
Heterozygous(g) == g[0] # g[1]

\* The trio filter is applied to sample s: at the even samples with -t, at
\* every sample with -p.
FilterApplies(s) ==
  (trioParentsInSuccession /\ s % 2 = 0) \/ otherParentIdx # NoTable

TrioAmbiguous(s, tru, oth) ==
  /\ FilterApplies(s)
  /\ Heterozygous(tru) /\ Heterozygous(oth) /\ tru[0] # oth[0]

\* A non-skipped true-heterozygous locus of the sample.
InformativeLocus(s, est, tru, oth) ==
  /\ ~GenoMissing(tru) /\ ~EstMissing(est) /\ ~TrioAmbiguous(s, tru, oth)
  /\ Heterozygous(tru)

\* 0: estimated[0] = true[0]; 1: estimated[0] = true[1]
Alignment(est, tru) == IF est[0] = tru[0] THEN 0 ELSE 1

\* Scenario A: estimated lines 01, 10, 01 and true lines 01, 01, 10
ScenarioEst == <<Pair("0", "1"), Pair("1", "0"), Pair("0", "1")>>
ScenarioTrue == <<Pair("0", "1"), Pair("0", "1"), Pair("1", "0")>>

Observe(s, est, tru, oth, dHet) ==
  LET inf == InformativeLocus(s, est, tru, oth)
      al == Alignment(est, tru)
  IN /\ hetSites' = [hetSites EXCEPT ![s] = @ + dHet]
     /\ hetLoci' = [hetLoci EXCEPT ![s] = IF inf THEN @ + 1 ELSE @]
     /\ lastAlign' = [lastAlign EXCEPT ![s] = IF inf THEN al ELSE @]
     /\ flips' = [flips EXCEPT
                    ![s] = IF inf /\ lastAlign[s] # -1 /\ lastAlign[s] # al
                           THEN @ + 1 ELSE @]
     /\ scenA' = IF /\ numSamples = 1 /\ scenA = numMarkers - 1
                    /\ numMarkers <= 3
                    /\ est = ScenarioEst[numMarkers]
                    /\ tru = ScenarioTrue[numMarkers]
                 THEN numMarkers ELSE scenA

\* The run pairs the samples by the table of -p alone.
TableAlone == otherParentIdx # NoTable /\ ~trioParentsInSuccession

\* st is the program state the iteration of s leaves.
ObservePair(s, tru, oth, st) ==
  LET same == /\ st.homologsInverted = homologsInverted
              /\ st.indivNumSwitches = indivNumSwitches
              /\ st.prevSwitchError = prevSwitchError
              /\ st.numMissing = numMissing
              /\ st.numSwitchErrors = numSwitchErrors
              /\ st.totalHetSites = totalHetSites
              /\ st.numAncClassSwitchErrors = numAncClassSwitchErrors
              /\ st.totalAncClassHetSites = totalAncClassHetSites
      skip == /\ ~GenoMissing(tru) /\ TrioAmbiguous(s, tru, oth)
              /\ same /\ ~st.fatal
  IN /\ skipped' = IF TableAlone /\ skip THEN skipped \cup {s} ELSE skipped
     /\ touched' = IF TableAlone /\ ~same THEN touched \cup {s} ELSE touched

\* lines 197-226: the iteration reads its ancestry record and its alleles.
\* The partner's cells that line 253 will read are drawn here as well.  E, T
\* and A are the estimated pairs, the true pairs and the HAPMIX records the
\* files of the specification at hand hold.
ReadSampFrom(E, T, A) ==
  /\ pc = "read"
  /\ samp < numSamples
  /\ ~TwinLags(twin)
  /\ \E est \in E, tru \in Drawable(allTrueAlleles, samp) \cap T,
        rec \in (IF useLocalAnc THEN A ELSE {NoRecord}) :
       LET st == ReadAnc(Prog, Cfg, samp, rec)
           p == OtherParent(Cfg, samp)
           reads == ValidLocus(tru) /\ ReadsOther(Cfg, samp, tru)
           buf == Draw(allTrueAlleles, samp, tru)
           live == ReadFrom(Cfg, samp + 1, numSamples) \cup
                   (IF reads THEN {p} ELSE {}) \cup TwinKeeps(twin)
       IN \E oth \in (IF reads THEN Drawable(buf, p) \cap T ELSE {NoPair}),
             twinEst \in TwinEsts(twin, samp, est) :
            /\ SetProg(st)
            /\ twin' = TwinRead(twin, twinEst, tru, rec)
            /\ IF st.fatal
               THEN \* getLocalAnc exited before the alleles were read
                    /\ pc' = "fatal"
                    /\ UNCHANGED <<allTrueAlleles, locals>>
               ELSE IF ~ValidLocus(tru)
               THEN \* the assert of line 225 failed on these true alleles
                    /\ pc' = "fatal"
                    /\ trueAlleles' = tru
                    /\ UNCHANGED <<estAlleles, allTrueAlleles,
                                   prevAndCurAncClass, prevLocalAncClass,
                                   ancRecord>>
               ELSE /\ pc' = "cmp"
                    /\ estAlleles' = est
                    /\ trueAlleles' = tru
                    /\ prevAndCurAncClass' = AncClassOf(Prog, Cfg, samp, rec)
                    /\ prevLocalAncClass' =
                         IF useLocalAnc THEN prevLocalAnc[samp] ELSE -1
                    /\ ancRecord' = rec
                    /\ allTrueAlleles' =
                         Keep(IF reads THEN Draw(buf, p, oth) ELSE buf, live)
  /\ UNCHANGED <<cfgvars, numMarkers, allEstAlleles, linevars, histvars>>

ReadSamp == ReadSampFrom(EstPairs, TruePairs, AncRecords)

\* lines 228-362 and the samp++ of line 197: the iteration compares its
\* alleles; its locals go out of scope (also when an assert ends the run)
CompareSamp ==
  /\ pc = "cmp"
  /\ LET oth == OtherAlleles
         st == Compare(Prog, Cfg, samp, estAlleles, trueAlleles, oth,
                       prevAndCurAncClass, numMarkers - 1)
     IN /\ IF st.fatal
           THEN /\ SetProg(st)
                /\ pc' = "fatal"
                /\ allTrueAlleles' = EmptyBuf(numSamples)
           ELSE /\ SetProg([st EXCEPT !.samp = @ + 1])
                /\ pc' = "read"
                /\ allTrueAlleles' =
                     Keep(allTrueAlleles,
                          ReadFrom(Cfg, st.samp + 1, numSamples)
                            \cup TwinKeeps(twin))
        /\ twin' = TwinCompare(twin, trueAlleles, oth, numMarkers - 1)
        /\ estAlleles' = NoPair
        /\ trueAlleles' = NoPair
        /\ prevAndCurAncClass' = -1
        /\ prevLocalAncClass' = -1
        /\ ancRecord' = NoRecord
        /\ Observe(samp, estAlleles, trueAlleles, oth,
                   st.totalHetSites - totalHetSites)
        /\ ObservePair(samp, trueAlleles, oth, st)
  /\ UNCHANGED <<cfgvars, numMarkers, allEstAlleles, linevars>>

\* lines 197-362 in the second run alone: the iteration of a sample that the
\* samp++ of line 264 has skipped in the first run
TwinIteration ==
  /\ TwinLags(twin)
  /\ \E est \in EstPairs, tru \in Drawable(allTrueAlleles, twin.st.samp) :
       LET tw == TwinRead(twin, est, tru, NoRecord)
       IN twin' = IF tw.st.fatal THEN tw
                  ELSE TwinCompare(tw, tru, NoPair, numMarkers - 1)
  /\ UNCHANGED <<cfgvars, pc, samp, progvars, numMarkers, allEstAlleles,
                 allTrueAlleles, locals, linevars, histvars>>

\* lines 197 and 365-367: the per-sample loop ends; read to endline
EndLocus ==
  /\ pc = "read"
  /\ samp >= numSamples
  /\ ~TwinLags(twin)
  /\ atEof = {}
  /\ pc' = "loop"
  /\ allTrueAlleles' = EmptyBuf(numSamples)
  /\ skipped' = {}
  /\ touched' = {}
  /\ UNCHANGED <<cfgvars, samp, progvars, numMarkers, allEstAlleles, locals,
                 linevars, twin, hetSites, hetLoci, lastAlign, flips, scenA>>

\* lines 365-367 on a line that the end of its file ends: getc returns EOF,
\* which is not '\n', and the loop goes on
ReadToEndlineAtEof ==
  /\ \/ pc = "read" /\ samp >= numSamples
     \/ pc = "endline"
  /\ atEof # {}
  /\ pc' = "endline"
  /\ UNCHANGED <<cfgvars, samp, progvars, numMarkers, allEstAlleles,
                 allTrueAlleles, locals, linevars, twin, histvars>>

\* line 150: end of the estimated file
Finish ==
  /\ pc = "loop"
  /\ pc' = "done"
  /\ UNCHANGED <<cfgvars, samp, progvars, numMarkers, allEstAlleles,
                 allTrueAlleles, locals, linevars, twin, histvars>>

Next == BeginLocus \/ ReadSamp \/ CompareSamp \/ EndLocus \/ Finish

Spec == Init /\ [][Next]_vars

\* Runs with -t and no -l, on longer files.
InitTrio ==
  /\ Init
  /\ numSamples >= 2 /\ trioParentsInSuccession /\ ~useLocalAnc

BeginLocusTrio == BeginLocusWithin(MaxTrioInput)

NextTrio == BeginLocusTrio \/ ReadSamp \/ CompareSamp \/ EndLocus \/ Finish

SpecTrio == InitTrio /\ [][NextTrio]_vars

\* Two runs, the second on the estimated file with one sample's homologs
\* swapped on every line.
InitInv ==
  /\ InitRun
  /\ omitIndSet = {}
  /\ skipNumInEst = 0
  /\ \E k \in 0..(numSamples - 1) : twin = NewTwin("inv", k, numSamples)

SpecInv == InitInv /\ [][Next]_vars

\* Two runs: one omits sample k of an estimated file of numSamples + 1
\* samples a line, the other omits none and reads the file without the
\* characters of sample k.  No -l.
InitOmit ==
  /\ InitRun
  /\ ~useLocalAnc
  /\ skipNumInEst = 0
  /\ \E k \in 0..numSamples :
       /\ omitIndSet = {k}
       /\ twin = NewTwin("omit", k, numSamples)

SpecOmit == InitOmit /\ [][Next]_vars

\* Runs with -t and -l on two samples, on files without missing data whose
\* estimated genotypes are heterozygous.
HetPairs == {Pair("0", "1"), Pair("1", "0")}
ConfidentRecords == {<<950, 30, 20>>, <<20, 30, 950>>}

InitAnc ==
  /\ Init
  /\ numSamples = 2 /\ trioParentsInSuccession /\ useLocalAnc
  /\ otherParentIdx = NoTable

BeginLocusAnc == BeginLocusWithin(MaxAncInput)

ReadSampAnc == ReadSampFrom(HetPairs, HetPairs, ConfidentRecords)

NextAnc == BeginLocusAnc \/ ReadSampAnc \/ CompareSamp \/ EndLocus \/ Finish

SpecAnc == InitAnc /\ [][NextAnc]_vars

\* Runs with -l on one sample whose HAPMIX records hold any posteriors of
\* Posteriors, in and out of the range 0..1.
MaxClassifyInput == 4
Posteriors == {-900, 20, 30, 950}
GridRecords == { <<a, b, c>> : a \in Posteriors, b \in Posteriors,
                              c \in Posteriors }

InitClassify ==
  /\ Init
  /\ numSamples = 1 /\ useLocalAnc
  /\ ~trioParentsInSuccession /\ otherParentIdx = NoTable

BeginLocusClassify == BeginLocusWithin(MaxClassifyInput)

ReadSampClassify == ReadSampFrom(HetPairs, HetPairs, GridRecords)

NextClassify ==
  BeginLocusClassify \/ ReadSampClassify \/ CompareSamp \/ EndLocus \/ Finish

SpecClassify == InitClassify /\ [][NextClassify]_vars

\* Runs without -t, -p and -l on files whose lines are up to two characters
\* shorter or longer than expected, with and without -s and -o.
MaxLineInput == 2
LineLens(exact) == { l \in (exact - 2)..(exact + 2) : l >= 0 }

InitLine ==
  /\ InitRun
  /\ ~useLocalAnc /\ ~trioParentsInSuccession /\ otherParentIdx = NoTable
  /\ omitIndSet \in {{}, {0}}
  /\ skipNumInEst \in 0..1
  /\ twin = NoTwin

BeginLocusLine ==
  /\ BeginLocusLines(MaxLineInput, LineLens(ExactEstLen),
                     LineLens(ExactTrueLen))
  /\ atEof' = {}

NextLine == BeginLocusLine \/ ReadSamp \/ CompareSamp \/ EndLocus \/ Finish

SpecLine == InitLine /\ [][NextLine]_vars

\* Runs without options on files whose last line may lack its '\n'; every
\* step of the program is taken in the end.
MaxEndInput == 3

InitEnd ==
  /\ Init
  /\ ~useLocalAnc /\ ~trioParentsInSuccession /\ otherParentIdx = NoTable

BeginLocusEnd ==
  /\ atEof = {}
  /\ BeginLocusLines(MaxEndInput, {ExactEstLen}, {ExactTrueLen})
  /\ atEof' \in SUBSET {"est", "true"}

NextEnd ==
  \/ BeginLocusEnd \/ ReadSamp \/ CompareSamp \/ EndLocus
  \/ ReadToEndlineAtEof \/ Finish

SpecEnd == InitEnd /\ [][NextEnd]_vars /\ WF_vars(NextEnd)

\* Two runs on the files of two samples: the first with -t, the second with
\* -p and the table that pairs sample 0 with sample 1.  No -l.
MaxPairInput == 4

InitPair ==
  /\ InitRun
  /\ numSamples = 2 /\ trioParentsInSuccession /\ otherParentIdx = NoTable
  /\ ~useLocalAnc
  /\ omitIndSet = {}
  /\ skipNumInEst = 0
  /\ twin = NewTwin("table", 0, numSamples)

BeginLocusPair == BeginLocusWithin(MaxPairInput)

NextPair ==
  \/ BeginLocusPair \/ ReadSamp \/ CompareSamp \/ TwinIteration
  \/ EndLocus \/ Finish

SpecPair == InitPair /\ [][NextPair]_vars

----------------------------------------------------------------------------
\* Properties

Samples == 0..(numSamples - 1)

RECURSIVE SumTo(_, _)
SumTo(f, n) == IF n < 0 THEN 0 ELSE f[n] + SumTo(f, n - 1)
Total(f) == SumTo(f, numSamples - 1)

ScenarioARun ==
  /\ numSamples = 1 /\ ~trioParentsInSuccession
  /\ numMarkers = 3 /\ scenA = 3

\* C1: when the run completes, each sample's switch count is the number of
\* adjacent pairs of its non-skipped true-heterozygous loci whose alignment
\* differs, numSwitchErrors is their sum, and Scenario A ends with
\* numSwitchErrors = 1 and totalHetSites = 2.
C1_SwitchCount ==
  pc = "done" =>
    /\ \A s \in Samples : indivNumSwitches[s] = flips[s]
    /\ numSwitchErrors = Total(flips)
    /\ ScenarioARun => numSwitchErrors = 1 /\ totalHetSites = 2

C1_Witness == pc = "done" /\ ScenarioARun /\ indivNumSwitches[0] = 1

\* C2: a sample's switch errors never exceed the heterozygous sites counted
\* for it, and numSwitchErrors never exceeds totalHetSites.
C2_SwitchesWithinHetSites ==
  /\ \A s \in Samples : indivNumSwitches[s] <= hetSites[s]
  /\ numSwitchErrors <= totalHetSites

C2_Witness ==
  \E s \in Samples : indivNumSwitches[s] = 2 /\ hetSites[s] = 2

\* C3: an orientation that is set is never reset to Unset, and it changes
\* value in a step exactly when a switch error of the sample is counted in
\* that step.
C3_OrientationToggles ==
  [][\A s \in Samples :
       /\ homologsInverted[s] # -1 => homologsInverted'[s] # -1
       /\ (homologsInverted[s] # -1 /\ homologsInverted'[s] # homologsInverted[s])
            <=> (indivNumSwitches'[s] = indivNumSwitches[s] + 1)
       /\ indivNumSwitches'[s] \in {indivNumSwitches[s], indivNumSwitches[s] + 1}
       /\ indivNumSwitches'[s] # indivNumSwitches[s]
            => /\ numSwitchErrors' = numSwitchErrors + 1
               /\ prevSwitchError'[s] = numMarkers - 1]_vars

C3_Witness ==
  \E s \in Samples : indivNumSwitches[s] = 2 /\ homologsInverted[s] = 1

Counters ==
  <<numMissing, numSwitchErrors, totalHetSites, numAncClassSwitchErrors,
    totalAncClassHetSites, indivNumSwitches, prevSwitchError, hetSites>>

\* C4: a sample whose orientation is Unset has contributed nothing to
\* totalHetSites and numSwitchErrors and has met no non-skipped
\* true-heterozygous locus; the step that sets its orientation changes no
\* counter; when the run completes its contribution to totalHetSites is the
\* number of its non-skipped true-heterozygous loci after the first one.
C4_FirstHetNotCounted ==
  /\ [](\A s \in Samples :
          /\ homologsInverted[s] = -1
               => hetSites[s] = 0 /\ indivNumSwitches[s] = 0
          /\ pc # "fatal" => (homologsInverted[s] = -1 <=> hetLoci[s] = 0)
          /\ pc = "done" /\ hetLoci[s] > 0 => hetSites[s] = hetLoci[s] - 1)
  /\ [][\A s \in Samples :
          homologsInverted[s] = -1 /\ homologsInverted'[s] # -1
            => UNCHANGED Counters]_vars

C4_Witness ==
  /\ pc = "done"
  /\ \E s \in Samples : hetLoci[s] = 3 /\ hetSites[s] = 2

\* The second run has ended as the first has, or goes on at the same sample.
SameOutcome ==
  /\ twin.st.fatal <=> pc = "fatal"
  /\ pc # "fatal" => twin.st.samp = samp

\* The counters of the second run are those of the first.
SameCounters ==
  /\ twin.st.numMissing = numMissing
  /\ twin.st.numSwitchErrors = numSwitchErrors
  /\ twin.st.totalHetSites = totalHetSites
  /\ twin.st.numAncClassSwitchErrors = numAncClassSwitchErrors
  /\ twin.st.totalAncClassHetSites = totalAncClassHetSites
  /\ twin.st.indivNumSwitches = indivNumSwitches
  /\ twin.st.prevSwitchError = prevSwitchError

Opposite(h) == IF h = -1 THEN -1 ELSE 1 - h

\* C5: when the two estimated homologs of sample k are swapped on every
\* line, the run has the same outcome after every step (it goes on, or it
\* has ended fatally), every global counter, class bucket, switch count and
\* last-switch locus is the same after every step (so sample k's share of
\* totalHetSites is the same as well), the other samples' orientations are
\* the same, and while the run goes on sample k's orientation is the
\* opposite one (Unset in both runs, or Aligned in one and Inverted in the
\* other).
C5_InversionSymmetry ==
  twin.mode = "inv" =>
    /\ SameOutcome
    /\ SameCounters
    /\ \A s \in Samples \ {twin.k} :
         twin.st.homologsInverted[s] = homologsInverted[s]
    /\ pc # "fatal" =>
         twin.st.homologsInverted[twin.k] = Opposite(homologsInverted[twin.k])

C5_Witness ==
  /\ twin.mode = "inv" /\ pc = "done" /\ numSamples = 2 /\ twin.k = 1
  /\ indivNumSwitches[1] = 1 /\ hetSites[1] = 1
  /\ homologsInverted[1] = 0 /\ twin.st.homologsInverted[1] = 1

\* C6: a run that omits sample k of an estimated file of numSamples + 1
\* samples a line and a run that omits none on that file without sample k's
\* two characters fill allEstAlleles with the same characters at every
\* locus, and after every step they have the same outcome, orientations,
\* switch counts, last-switch loci, counters and class buckets.
C6_OmitEquivalence ==
  twin.mode = "omit" =>
    /\ pc \in {"read", "cmp"} => twin.allEst = allEstAlleles
    /\ SameOutcome
    /\ SameCounters
    /\ twin.st.homologsInverted = homologsInverted

C6_Witness ==
  /\ twin.mode = "omit" /\ pc = "done" /\ numSamples = 2 /\ omitIndSet = {1}
  /\ allEstAlleles = <<1, 2, 5, 6>>
  /\ indivNumSwitches[1] = 1 /\ homologsInverted[0] = 1

\* What an iteration that skips its sample leaves as it was.
Untouched ==
  <<numSwitchErrors, totalHetSites, numMissing, numAncClassSwitchErrors,
    totalAncClassHetSites, homologsInverted, indivNumSwitches,
    prevSwitchError>>

\* C7: an iteration whose sample's true genotype is missing (one '9' or
\* two) skips the sample: the run goes on with the next sample, and the
\* counters, the class buckets, the orientations, the switch counts and the
\* last-switch loci are unchanged, whatever the estimated alleles are.
C7_MissingTruthSkipped ==
  [][/\ pc = "read" /\ pc' = "cmp" /\ GenoMissing(trueAlleles')
          => UNCHANGED Untouched
     /\ pc = "cmp" /\ GenoMissing(trueAlleles)
          => pc' = "read" /\ samp' = samp + 1 /\ UNCHANGED Untouched]_vars

C7_Witness ==
  /\ pc = "cmp" /\ trueAlleles = Pair("1", "9") /\ estAlleles = Pair("9", "0")
  /\ homologsInverted[samp] = 1

\* The case of C8: -t, an even sample and its partner both
\* true-heterozygous, their first true alleles different.
TrueHet(g) == g \in {Pair("0", "1"), Pair("1", "0")}

TripleHetPair ==
  /\ pc = "cmp" /\ trioParentsInSuccession
  /\ samp % 2 = 0 /\ samp + 1 < numSamples
  /\ TrueHet(trueAlleles)
  /\ TrueHet(Pair(allTrueAlleles[2 * samp + 2], allTrueAlleles[2 * samp + 3]))
  /\ trueAlleles[0] # allTrueAlleles[2 * samp + 2]

BothSkipped ==
  pc' = "read" /\ samp' = samp + 2 /\ UNCHANGED Untouched

\* C8 as stated: in that case the locus is skipped for both samples whatever
\* their estimated alleles are, and the run does not end there.
C8_Original == [][TripleHetPair => BothSkipped]_vars

\* C8, amended: in that case, when the even sample's estimated alleles hold
\* no '9', the locus is skipped for both samples: the loop goes on after the
\* partner, whose estimated alleles are never read, and no orientation,
\* switch count or global counter changes.  An estimated '9' of the even
\* sample ends the run (line 238 comes before the filter).
C8_TripleHetSkipped ==
  [][/\ TripleHetPair /\ "9" \notin {estAlleles[0], estAlleles[1]}
          => BothSkipped
     /\ TripleHetPair /\ "9" \in {estAlleles[0], estAlleles[1]}
          => pc' = "fatal" /\ UNCHANGED Untouched]_vars

C8_Witness ==
  /\ TripleHetPair /\ estAlleles = Pair("?", "1")
  /\ homologsInverted[samp] = 0 /\ homologsInverted[samp + 1] = 1

\* C9: with -l, the step that counts a switch error of sample s at a locus
\* adds one to exactly one class bucket: to bucket c in 0..2 when the record
\* the iteration read is the sample's record of this locus, the record read
\* before it is the record of the preceding locus, and both classify as c;
\* to bucket 3 otherwise.
C9_ClassBucket ==
  [][useLocalAnc /\ pc = "cmp"
       /\ indivNumSwitches'[samp] = indivNumSwitches[samp] + 1
     => LET cur == prevLocalAnc[samp]
            prev == prevLocalAncClass
            ofLocus == ancRead[samp] = numMarkers
            c == IF ofLocus /\ cur = prev /\ cur >= 0 THEN cur ELSE 3
        IN numAncClassSwitchErrors' =
             [numAncClassSwitchErrors EXCEPT ![c] = @ + 1]]_vars

\* C10: with -l, after k loci exactly k records have been read from every
\* sample's HAPMIX file.
C10_OneRecordPerLocus ==
  useLocalAnc /\ pc \in {"loop", "done"}
    => \A s \in Samples : ancRead[s] = numMarkers

\* The true genotype of the iteration at hand is homozygous in 0 or in 1.
TrueHom == trueAlleles \in {Pair("0", "0"), Pair("1", "1")}

\* C14: an iteration whose true alleles are homozygous (t,t) and whose
\* estimated pair is neither (t,t) nor the missing estimate ('?','?') ends
\* the run, whatever the sample's orientation is, and changes no
\* orientation, no switch count, numSwitchErrors, totalHetSites or class
\* bucket.
C14_HomozygousMismatchFatal ==
  [][pc = "cmp" /\ TrueHom /\ estAlleles # trueAlleles
       /\ estAlleles # Pair("?", "?")
     => /\ pc' = "fatal"
        /\ UNCHANGED <<homologsInverted, indivNumSwitches, numSwitchErrors,
                       totalHetSites, numAncClassSwitchErrors,
                       totalAncClassHetSites, numMissing>>]_vars

C14_Witness ==
  /\ pc = "cmp" /\ trueAlleles = Pair("0", "0") /\ estAlleles = Pair("1", "1")
  /\ homologsInverted[samp] = 1

\* The iteration at hand reaches the missing-estimate check of line 273 when
\* the estimate holds no '9'.
AtEstimateCheck ==
  /\ pc = "cmp" /\ ~GenoMissing(trueAlleles)
  /\ ~TrioAmbiguous(samp, trueAlleles, OtherAlleles)

\* C15: an iteration whose true alleles are neither missing nor
\* trio-ambiguous: with both estimated alleles '?' it adds one to numMissing
\* and leaves the orientations, the switch counts, numSwitchErrors,
\* totalHetSites and the class buckets as they were, and the run goes on
\* with the next sample; with exactly one '?' it ends the run and changes no
\* counter.
C15_MissingEstimate ==
  [][/\ AtEstimateCheck /\ estAlleles = Pair("?", "?")
          => /\ pc' = "read" /\ samp' = samp + 1
             /\ numMissing' = numMissing + 1
             /\ UNCHANGED <<homologsInverted, indivNumSwitches,
                            prevSwitchError, numSwitchErrors, totalHetSites,
                            numAncClassSwitchErrors, totalAncClassHetSites>>
     /\ AtEstimateCheck /\ EstMissing(estAlleles)
          /\ estAlleles # Pair("?", "?")
          => pc' = "fatal" /\ UNCHANGED Untouched]_vars

C15_Witness ==
  /\ pc = "cmp" /\ trueAlleles = Pair("0", "1") /\ estAlleles = Pair("?", "?")
  /\ homologsInverted[samp] = 1 /\ ~TrioAmbiguous(samp, trueAlleles, OtherAlleles)

Sum4(f) == f[0] + f[1] + f[2] + f[3]

\* C17: in every state the four class buckets add up to the global counter
\* (het sites to totalHetSites, switch errors to numSwitchErrors), no bucket
\* holds more switch errors than het sites, and without -l only bucket 3 is
\* used.
C17_BucketsPartition ==
  /\ Sum4(totalAncClassHetSites) = totalHetSites
  /\ Sum4(numAncClassSwitchErrors) = numSwitchErrors
  /\ \A c \in 0..3 : numAncClassSwitchErrors[c] <= totalAncClassHetSites[c]
  /\ ~useLocalAnc =>
       \A c \in 0..2 : /\ numAncClassSwitchErrors[c] = 0
                       /\ totalAncClassHetSites[c] = 0

C17_Witness ==
  /\ useLocalAnc /\ pc = "done"
  /\ numAncClassSwitchErrors[0] = 1 /\ totalAncClassHetSites[0] = 1

\* The posteriors of the record above 0.9
Confident(rec) == { j \in 1..3 : rec[j] > 900 }

\* C16: the class getLocalAnc returns for a record that passes the sum
\* check (kept in prevLocalAnc by line 203) is c in 0..2 when posterior c is
\* the only one above 0.9, and Ambiguous (-1) otherwise.
C16_ConfidentClass ==
  pc = "cmp" /\ useLocalAnc
    => prevLocalAnc[samp] =
         IF Cardinality(Confident(ancRecord)) = 1
         THEN (CHOOSE j \in Confident(ancRecord) : TRUE) - 1
         ELSE -1

\* A character of sample p's true genotype that the run has read from the
\* line at hand is not one of '0', '1', '9'.
InvalidTrueRead(p) ==
  \E h \in 0..1 : ~(allTrueAlleles[2 * p + h] = Undrawn
                      \/ ValidTrue(allTrueAlleles[2 * p + h]))

\* C12: when a true character of the locus is not one of '0', '1', '9', the
\* run ends at that locus: once the run has read such a character of sample
\* p, every step either ends the run or leaves the per-sample loop at or
\* before p, whose iteration then ends it.
C12_InvalidTrueFatal ==
  [][\A p \in Samples :
       InvalidTrueRead(p) => pc' = "fatal" \/ (pc' # "loop" /\ samp' <= p)]_vars

\* C18: with the pairing table of -p alone, at every locus the partner of a
\* sample that the trio filter has skipped as triple-heterozygous is left
\* untouched: its iteration changes no orientation, switch count,
\* last-switch locus, counter or class bucket.
C18_PartnerUntouched ==
  TableAlone => \A s \in skipped : otherParentIdx[s] \notin touched

C18_Witness ==
  /\ TableAlone /\ pc = "read" /\ samp = 2 /\ skipped = {0, 1}
  /\ homologsInverted[0] = 0 /\ homologsInverted[1] = 1

\* The characters of the estimated line at hand left after the skipped
\* samples and the omitted ones.
EstKept ==
  Cardinality({ j \in (2 * skipNumInEst + 1)..estLineLen :
                  ((j - 2 * skipNumInEst - 1) \div 2) \notin omitIndSet })

\* C11: the run ends fatally at a locus whose estimated line, after the
\* skipped and the omitted samples, or whose true line does not hold exactly
\* 2 * numSamples characters, be it shorter or longer.
C11_LineLengthChecked ==
  numMarkers >= 1
    /\ (estLineLen < 2 * skipNumInEst \/ EstKept # 2 * numSamples
          \/ trueLineLen # 2 * numSamples)
    => pc = "fatal"

\* C13: on finite files the run comes to an end in the end, normally or
\* fatally, also when the last line of a file has no '\n'.
C13_Terminates == <>(pc \in {"done", "fatal"})

\* C19: without -l and with an even number of samples, after every locus
\* that a run with -t completes, the run with -p and the table (0,1),
\* (2,3), ... on the same files has completed it as well, with the same
\* orientations, switch counts, last-switch loci and counters.
C19_SuccessionAsTable ==
  twin.mode = "table" /\ pc \in {"loop", "done"}
    => /\ ~twin.st.fatal
       /\ SameCounters
       /\ twin.st.homologsInverted = homologsInverted

\* C20: when the trio filter reads the partner's true alleles (line 253),
\* the partner's index is one of the samples, so both cells read lie in
\* allTrueAlleles.
C20_PartnerInBounds ==
  pc = "cmp" /\ ReadsOther(Cfg, samp, trueAlleles)
    => OtherParent(Cfg, samp) \in Samples

====
